---- MODULE Spec2Model ----
(***************************************************************************)
(* A model of asserver.py: an SSH chat server built on asyncssh.           *)
(*                                                                         *)
(* The program is one asyncio event loop.  Every accepted connection runs  *)
(* the coroutine handle_connection(process); the only suspension point of  *)
(* that coroutine is the read of process.stdin (line 70), so between two   *)
(* reads a handler runs without any other handler running.  The variable   *)
(* `running` is the handler that holds the loop; the steps of a handler    *)
(* (one per write of broadcast's for loop, one for the finally block) are  *)
(* separate actions that only the running handler can take.                *)
(*                                                                         *)
(* Text is a sequence of characters.  CR and LF are the two characters     *)
(* str.strip("\r\n") looks at; every other element of a text stands for a  *)
(* run of characters that are neither.                                     *)
(***************************************************************************)
EXTENDS Integers, Sequences, FiniteSets, TLC

\* ------------------------------------------------------------------ bounds

\* Connections the transport accepts or refuses in one run.
NSessions == 3
\* Non-empty lines read from all interactive sessions together.
MaxLines == 2
\* Characters of a text handed to broadcast directly.
MaxTextLen == 3

Sessions == 1..NSessions

\* ------------------------------------------------------------------- text

CR == "\r"
LF == "\n"

None == "None"

RECURSIVE lstrip(_)
\* The left half of str.strip("\r\n"): drop leading CR and LF characters.
lstrip(s) ==
    IF s # <<>> /\ Head(s) \in {CR, LF} THEN lstrip(Tail(s)) ELSE s

RECURSIVE rstrip(_)
\* The right half of str.strip("\r\n"): drop trailing CR and LF characters.
rstrip(s) ==
    IF s # <<>> /\ s[Len(s)] \in {CR, LF}
    THEN rstrip(SubSeq(s, 1, Len(s) - 1))
    ELSE s

\* strip as str.rstrip("\r\n"): only the end of the text is stripped.
strip_trailing_only(s) == rstrip(s)

\* str.strip("\r\n"), lines 42, 62 and 72.
strip(s) == rstrip(lstrip(s))

\* f"[connected] {username}\n", line 57.
connected_msg(u) == <<"[connected] ", u, LF>>

\* f"[disconnected] {username}\n", line 87.
disconnected_msg(u) == <<"[disconnected] ", u, LF>>

\* f"{username}: {line}\n" with line = text.strip('\r\n'), lines 62-63, 72-73.
chat_msg(u, text) == <<u, ": ">> \o strip(text) \o <<LF>>

\* f"An error occured: {type(e).__name__} {e}\n", line 83.
error_msg(e) == <<"An error occured: ", e.kind, " ", e.message, LF>>

\* What SSHWriter.write raises on a channel that is closed for sending.
BrokenPipe == [kind |-> "BrokenPipeError", message |-> "Channel not open for sending"]

\* What a read of process.stdin raises when the connection is lost.
ConnectionLost == [kind |-> "ConnectionLost", message |-> "Connection lost"]

\* The terminator broadcast appends, lines 43-48.
terminator(use_stderr) == IF use_stderr THEN <<CR, LF>> ELSE <<LF>>

\* The text broadcast writes to every sink, lines 42-48.
normalize(msg, use_stderr) == strip(msg) \o terminator(use_stderr)

\* --------------------------------------------------------- authentication

Users == {"alice", "bob", "mallory"}
\* Kbad is a key on which the comparison inside SSHAuthorizedKeys.validate faults.
Keys == {"K1", "K2", "K3", "Kbad"}

\* The identity table filled at startup, lines 20-22 and 105-106: alice has two
\* authorized keys, bob one, mallory is not a client.
config_clients == [u \in {"alice", "bob"} |->
                     IF u = "alice" THEN {"K1", "K3"} ELSE {"K2"}]

\* asyncssh's SSHAuthorizedKeys.validate(key, "", "") as line 34 calls it: the
\* matching entry's options (not None), None when no entry matches, or a fault.
authorized_keys_validate(entries, k) ==
    IF k = "Kbad" THEN [raised |-> TRUE, value |-> None]
    ELSE IF k \in entries THEN [raised |-> FALSE, value |-> "options"]
    ELSE [raised |-> FALSE, value |-> None]

\* The expression of line 34: config_clients[username] raises KeyError for a
\* username that is not a key of the table.
lookup_and_validate(u, k) ==
    IF u \notin DOMAIN config_clients
    THEN [raised |-> TRUE, value |-> None]
    ELSE authorized_keys_validate(config_clients[u], k)

\* validate_public_key with `except: return True`: a fault lets the client in.
validate_public_key_fail_open(u, k) ==
    LET r == lookup_and_validate(u, k)
    IN  IF r.raised THEN TRUE ELSE r.value # None

\* validate_public_key that looks the key up in every client's authorized keys
\* instead of the username's own.
validate_public_key_any_client(u, k) ==
    /\ u \in DOMAIN config_clients
    /\ \E v \in DOMAIN config_clients :
           LET r == authorized_keys_validate(config_clients[v], k)
           IN  ~r.raised /\ r.value # None

\* SSHServer.validate_public_key, lines 32-36: the bare except turns every
\* fault into False.
validate_public_key(u, k) ==
    LET r == lookup_and_validate(u, k)
    IN  IF r.raised THEN FALSE ELSE r.value # None

\* ------------------------------------------------------------------ state

\* process.command: None for an interactive session, else the command's text.
NoCommand == [given |-> FALSE, text |-> <<>>]
Commands == {NoCommand, [given |-> TRUE, text |-> <<"hello there">>]}
\* Lines an interactive client can send; <<>> is the empty string.
Lines == {<<"hi", LF>>, <<>>}

\* An exception a read of process.stdin raises that is neither BreakReceived
\* nor TerminalSizeChanged.
SignalReceived == [kind |-> "SignalReceived", message |-> "INT"]

VARIABLES
    pc,                \* where each connection's handler is
    username,          \* the username each connection presented
    key,               \* the public key each connection presented
    command,           \* process.command
    open,              \* whether the connection's channel is open for sending
    exit_status,       \* the statuses process.exit was called with
    connected_clients, \* the list of line 19
    running,           \* the handler that holds the event loop, 0 for none
    bc,                \* the frame of the broadcast call in progress
    out,               \* what was written to each process.stdout
    err,               \* what was written to each process.stderr
    server_stdout,     \* what was written to sys.stdout
    server_stderr,     \* what was written to sys.stderr
    bcasts,            \* history: every call of broadcast
    why,               \* how the handler that is closing left its try body
    escaped,           \* history: the exception that left handle_connection
    added,             \* history: how often each process was appended
    removed,           \* history: how often each process was removed
    nread              \* history: the non-empty lines read so far

vars == <<pc, username, key, command, open, exit_status, connected_clients,
          running, bc, out, err, server_stdout, server_stderr, bcasts, why,
          escaped, added, removed, nread>>

\* The handler is not leaving its try body.
NoReason == [reason |-> "none", by |-> 0]

\* No exception.
NoError == [kind |-> "None", message |-> ""]

NoFrame == [msg |-> <<>>, use_stderr |-> FALSE, idx |-> 0, ret |-> "none", id |-> 0]

Init ==
    /\ pc = [i \in Sessions |-> "idle"]
    /\ username = [i \in Sessions |-> None]
    /\ key = [i \in Sessions |-> None]
    /\ command = [i \in Sessions |-> NoCommand]
    /\ open = [i \in Sessions |-> FALSE]
    /\ exit_status = [i \in Sessions |-> <<>>]
    /\ connected_clients = <<>>
    /\ running = 0
    /\ bc = NoFrame
    /\ out = [i \in Sessions |-> <<>>]
    /\ err = [i \in Sessions |-> <<>>]
    /\ server_stdout = <<>>
    /\ server_stderr = <<>>
    /\ bcasts = <<>>
    /\ why = [i \in Sessions |-> NoReason]
    /\ added = [i \in Sessions |-> 0]
    /\ removed = [i \in Sessions |-> 0]
    /\ escaped = [i \in Sessions |-> NoError]
    /\ nread = 0

InRegistry(i) == \E n \in 1..Len(connected_clients) : connected_clients[n] = i

\* A list.remove that leaves the list as it is.
list_remove_nothing(list, x) == [raised |-> FALSE, value |-> list]

\* list.remove(x), line 89: the list without the first occurrence of x, or
\* ValueError when x is not in the list.
list_remove(list, x) ==
    IF \E n \in 1..Len(list) : list[n] = x
    THEN LET n == CHOOSE m \in 1..Len(list) :
                      list[m] = x /\ \A l \in 1..(m - 1) : list[l] # x
         IN  [raised |-> FALSE,
              value |-> SubSeq(list, 1, n - 1) \o SubSeq(list, n + 1, Len(list))]
    ELSE [raised |-> TRUE, value |-> list]

\* ------------------------------------------------------------- broadcast

\* The call broadcast(msg, use_stderr) by handler i, lines 39-48: the message is
\* normalized and the for loop starts at the head of connected_clients.  `ret`
\* names the call site; `list` and `opn` are connected_clients and the channels'
\* states at the call, `hist` the calls before it, `n` the lines read so far.
begin_broadcast(i, msg, use_stderr, ret, list, opn, hist, n) ==
    /\ bc' = [msg |-> normalize(msg, use_stderr), use_stderr |-> use_stderr,
              idx |-> 1, ret |-> ret, id |-> Len(hist) + 1]
    /\ bcasts' = Append(hist,
                   [from |-> i, site |-> ret, use_stderr |-> use_stderr,
                    text |-> normalize(msg, use_stderr), snapshot |-> list,
                    broken |-> {j \in Sessions : ~opn[j]
                                   /\ \E m \in 1..Len(list) : list[m] = j},
                    line_no |-> n, raised |-> FALSE, returned |-> FALSE])
    /\ pc' = [pc EXCEPT ![i] = "bcast"]
    /\ running' = i

\* BroadcastWrite that does not echo a message to the session that sent it.
BroadcastWrite_skip_sender(i) ==
    /\ running = i
    /\ pc[i] = "bcast"
    /\ bc.idx <= Len(connected_clients)
    /\ LET c == connected_clients[bc.idx]
       IN  /\ open[c]
           /\ IF bc.use_stderr
              THEN /\ err' = [err EXCEPT ![c] = Append(@, [b |-> bc.id, text |-> bc.msg])]
                   /\ out' = out
              ELSE /\ out' = [out EXCEPT ![c] = IF c = i THEN @
                                  ELSE Append(@, [b |-> bc.id, text |-> bc.msg])]
                   /\ err' = err
    /\ bc' = [bc EXCEPT !.idx = @ + 1]
    /\ UNCHANGED <<pc, username, key, command, open, exit_status,
                   connected_clients, running, server_stdout, server_stderr,
                   bcasts, why, escaped, added, removed, nread>>

\* BroadcastWrite as it would be with `await c.stdout.drain()` after each write:
\* the handler gives up the loop between two writes.
BroadcastWrite_yields(i) ==
    /\ pc[i] = "bcast"
    /\ running \in {0, i}
    /\ bc.idx <= Len(connected_clients)
    /\ LET c == connected_clients[bc.idx]
       IN  /\ open[c]
           /\ IF bc.use_stderr
              THEN /\ err' = [err EXCEPT ![c] = Append(@, [b |-> bc.id, text |-> bc.msg])]
                   /\ out' = out
              ELSE /\ out' = [out EXCEPT ![c] = Append(@, [b |-> bc.id, text |-> bc.msg])]
                   /\ err' = err
    /\ bc' = [bc EXCEPT !.idx = @ + 1]
    /\ running' = 0
    /\ UNCHANGED <<pc, username, key, command, open, exit_status,
                   connected_clients, server_stdout, server_stderr,
                   bcasts, why, escaped, added, removed, nread>>

\* One pass of the for loop of lines 45-46 or 49-50: c.stderr.write(msg) or
\* c.stdout.write(msg) on a channel that is open for sending.
BroadcastWrite(i) ==
    /\ running = i
    /\ pc[i] = "bcast"
    /\ bc.idx <= Len(connected_clients)
    /\ LET c == connected_clients[bc.idx]
       IN  /\ open[c]
           /\ IF bc.use_stderr
              THEN /\ err' = [err EXCEPT ![c] = Append(@, [b |-> bc.id, text |-> bc.msg])]
                   /\ out' = out
              ELSE /\ out' = [out EXCEPT ![c] = Append(@, [b |-> bc.id, text |-> bc.msg])]
                   /\ err' = err
    /\ bc' = [bc EXCEPT !.idx = @ + 1]
    /\ UNCHANGED <<pc, username, key, command, open, exit_status,
                   connected_clients, running, server_stdout, server_stderr,
                   bcasts, why, escaped, added, removed, nread>>

\* A pass of the for loop whose write raises BrokenPipeError: broadcast has no
\* handler, so the loop is left and the exception reaches the call site in
\* handle_connection.
\*   lines 59 and 65: caught by `except Exception` (82-84), which logs it;
\*   line 75: inside the inner try, whose `finally: break` (78-79) discards it;
\*   line 91: inside the outer finally, so it leaves handle_connection.
BroadcastFail(i) ==
    /\ running = i
    /\ pc[i] = "bcast"
    /\ bc.idx <= Len(connected_clients)
    /\ ~open[connected_clients[bc.idx]]
    /\ bcasts' = [bcasts EXCEPT ![bc.id].raised = TRUE]
    /\ bc' = NoFrame
    /\ IF bc.ret \in {"connected", "command"}
       THEN /\ server_stderr' = Append(server_stderr, error_msg(BrokenPipe))
            /\ pc' = [pc EXCEPT ![i] = "closing"]
            /\ why' = [why EXCEPT ![i] = [reason |-> "logged_error",
                                                by |-> connected_clients[bc.idx]]]
            /\ UNCHANGED <<running, escaped>>
       ELSE IF bc.ret = "line"
       THEN /\ pc' = [pc EXCEPT ![i] = "closing"]
            /\ why' = [why EXCEPT ![i] = [reason |-> "write_error",
                                                by |-> connected_clients[bc.idx]]]
            /\ UNCHANGED <<running, escaped, server_stderr>>
       ELSE /\ pc' = [pc EXCEPT ![i] = "done"]
            /\ escaped' = [escaped EXCEPT ![i] = BrokenPipe]
            /\ running' = 0
            /\ why' = [why EXCEPT ![i] = NoReason]
            /\ server_stderr' = server_stderr
    /\ UNCHANGED <<username, key, command, open, exit_status, connected_clients,
                   out, err, server_stdout, added, removed, nread>>

\* The for loop of broadcast is exhausted and the call returns to its call site.
\*   line 59, a command was given: lines 62-65, the command is broadcast;
\*   line 59, no command: the handler suspends in the read of line 70;
\*   line 65: the try body is done;
\*   line 75: the async for reads the next line (line 70);
\*   line 91: handle_connection returns.
BroadcastReturn(i) ==
    /\ running = i
    /\ pc[i] = "bcast"
    /\ bc.idx > Len(connected_clients)
    /\ IF bc.ret = "connected" /\ command[i].given
       THEN /\ server_stdout' = Append(server_stdout, chat_msg(username[i], command[i].text))
            /\ begin_broadcast(i, chat_msg(username[i], command[i].text), FALSE,
                               "command", connected_clients, open,
                               [bcasts EXCEPT ![bc.id].returned = TRUE], nread)
            /\ UNCHANGED why
       ELSE /\ bcasts' = [bcasts EXCEPT ![bc.id].returned = TRUE]
            /\ bc' = NoFrame
            /\ server_stdout' = server_stdout
            /\ IF bc.ret \in {"connected", "line"}
               THEN /\ pc' = [pc EXCEPT ![i] = "reading"]
                    /\ running' = 0
                    /\ why' = why
               ELSE IF bc.ret = "command"
               THEN /\ pc' = [pc EXCEPT ![i] = "closing"]
                    /\ running' = running
                    /\ why' = [why EXCEPT ![i] = [reason |-> "command_done", by |-> i]]
               ELSE /\ pc' = [pc EXCEPT ![i] = "done"]
                    /\ running' = 0
                    /\ why' = [why EXCEPT ![i] = NoReason]
    /\ UNCHANGED <<username, key, command, open, exit_status, connected_clients,
                   out, err, server_stderr, escaped, added, removed, nread>>

\* -------------------------------------------------------------- transport

\* Authenticate with the process registered before the key is validated.
Authenticate_registers_first(i, u, k) ==
    /\ running = 0
    /\ pc[i] = "idle"
    /\ \A j \in 1..(i - 1) : pc[j] # "idle"
    /\ username' = [username EXCEPT ![i] = u]
    /\ key' = [key EXCEPT ![i] = k]
    /\ connected_clients' = Append(connected_clients, i)
    /\ IF validate_public_key(u, k)
       THEN /\ pc' = [pc EXCEPT ![i] = "start"]
            /\ open' = [open EXCEPT ![i] = TRUE]
            /\ \E c \in Commands : command' = [command EXCEPT ![i] = c]
       ELSE /\ pc' = [pc EXCEPT ![i] = "rejected"]
            /\ UNCHANGED <<open, command>>
    /\ UNCHANGED <<exit_status, running, bc, out, err,
                   server_stdout, server_stderr, bcasts, why, escaped, added,
                   removed, nread>>

\* The transport asks validate_public_key for connection i (connections are
\* numbered in the order they arrive).  An accepted connection gets a process,
\* with or without a command, and its handle_connection task is scheduled; a
\* refused one ends there.
Authenticate(i, u, k) ==
    /\ running = 0
    /\ pc[i] = "idle"
    /\ \A j \in 1..(i - 1) : pc[j] # "idle"
    /\ username' = [username EXCEPT ![i] = u]
    /\ key' = [key EXCEPT ![i] = k]
    /\ IF validate_public_key(u, k)
       THEN /\ pc' = [pc EXCEPT ![i] = "start"]
            /\ open' = [open EXCEPT ![i] = TRUE]
            /\ \E c \in Commands : command' = [command EXCEPT ![i] = c]
       ELSE /\ pc' = [pc EXCEPT ![i] = "rejected"]
            /\ UNCHANGED <<open, command>>
    /\ UNCHANGED <<exit_status, connected_clients, running, bc, out, err,
                   server_stdout, server_stderr, bcasts, why, escaped, added,
                   removed, nread>>

\* The connection of a client whose handler waits in the read of line 70 is
\* lost: the channel is closed for sending at once, and the handler finds out
\* when the loop next runs it (its read ends or raises).
TransportClose(i) ==
    /\ running = 0
    /\ pc[i] = "reading"
    /\ open[i]
    /\ open' = [open EXCEPT ![i] = FALSE]
    /\ UNCHANGED <<pc, username, key, command, exit_status, connected_clients,
                   running, bc, out, err, server_stdout, server_stderr, bcasts,
                   why, escaped, added, removed, nread>>

\* ------------------------------------------------------- handle_connection

\* HandlerStart with line 59 as broadcast(connected_msg): the arrival notice
\* goes out on stdout.
HandlerStart_on_stdout(i) ==
    /\ running = 0
    /\ pc[i] = "start"
    /\ \A j \in 1..(i - 1) : pc[j] # "start"
    /\ added' = [added EXCEPT ![i] = @ + 1]
    /\ connected_clients' = Append(connected_clients, i)
    /\ server_stderr' = Append(server_stderr, connected_msg(username[i]))
    /\ begin_broadcast(i, connected_msg(username[i]), FALSE, "connected",
                       Append(connected_clients, i), open, bcasts, nread)
    /\ UNCHANGED <<username, key, command, open, exit_status, out, err,
                   server_stdout, why, escaped, removed, nread>>

\* Lines 53-59: the task starts (asyncio starts tasks in the order they were
\* created); the process is appended to connected_clients, the arrival is
\* logged and broadcast on stderr.
HandlerStart(i) ==
    /\ running = 0
    /\ pc[i] = "start"
    /\ \A j \in 1..(i - 1) : pc[j] # "start"
    /\ added' = [added EXCEPT ![i] = @ + 1]
    /\ connected_clients' = Append(connected_clients, i)
    /\ server_stderr' = Append(server_stderr, connected_msg(username[i]))
    /\ begin_broadcast(i, connected_msg(username[i]), TRUE, "connected",
                       Append(connected_clients, i), open, bcasts, nread)
    /\ UNCHANGED <<username, key, command, open, exit_status, out, err,
                   server_stdout, why, escaped, removed, nread>>

\* ReadLine without the test of line 71: the empty string is stripped, logged
\* and broadcast like any line.
ReadLine_without_empty_check(i, line) ==
    /\ running = 0
    /\ pc[i] = "reading"
    /\ open[i]
    /\ nread < MaxLines
    /\ nread' = nread + 1
    /\ server_stdout' = Append(server_stdout, chat_msg(username[i], line))
    /\ begin_broadcast(i, chat_msg(username[i], line), FALSE, "line",
                       connected_clients, open, bcasts, nread + 1)
    /\ UNCHANGED <<username, key, command, open, exit_status, connected_clients,
                   out, err, server_stderr, escaped, added, removed, why>>

\* Lines 70-75: the read returns a line.  The empty string raises BreakReceived
\* (line 71) inside the inner try, whose `finally: break` leaves the loop; any
\* other line is stripped, logged and broadcast on stdout.
ReadLine(i, line) ==
    /\ running = 0
    /\ pc[i] = "reading"
    /\ open[i]
    /\ IF line = <<>>
       THEN /\ pc' = [pc EXCEPT ![i] = "closing"]
            /\ running' = i
            /\ why' = [why EXCEPT ![i] = [reason |-> "empty_line", by |-> i]]
            /\ UNCHANGED <<server_stdout, bc, bcasts, nread>>
       ELSE /\ nread < MaxLines
            /\ nread' = nread + 1
            /\ server_stdout' = Append(server_stdout, chat_msg(username[i], line))
            /\ begin_broadcast(i, chat_msg(username[i], line), FALSE, "line",
                               connected_clients, open, bcasts, nread + 1)
            /\ why' = why
    /\ UNCHANGED <<username, key, command, open, exit_status, connected_clients,
                   out, err, server_stderr, escaped, added, removed>>

\* What the while loop of lines 68-79 does when the read of line 70 ends
\* without a line: "exit" to leave the loop, "again" to read again.
\*   resize: `except TerminalSizeChanged: continue`, and then the finally
\*           clause runs and its break replaces the continue;
\*   eof:    the async for ends, and the finally clause breaks;
\*   break, error: the exception is in flight when the finally clause
\*           breaks, which discards it.
loop_outcome(event) == "exit"

\* ReadEvent with BreakReceived handled like any other exception: lines 82-84
\* log it.
ReadEvent_logs_break(i, event) ==
    /\ running = 0
    /\ pc[i] = "reading"
    /\ event \in {"resize", "break"} => open[i]
    /\ pc' = [pc EXCEPT ![i] = "closing"]
    /\ running' = i
    /\ why' = [why EXCEPT ![i] = [reason |-> event, by |-> i]]
    /\ server_stderr' = IF event = "break"
                        THEN Append(server_stderr,
                               error_msg([kind |-> "BreakReceived", message |-> "0"]))
                        ELSE server_stderr
    /\ UNCHANGED <<username, key, command, open, exit_status, connected_clients,
                   bc, out, err, server_stdout, bcasts, escaped,
                   added, removed, nread>>

\* The read of line 70 ends without a line: the client resized its terminal
\* (TerminalSizeChanged), sent a break (BreakReceived), closed its input
\* (end of the async for), or the read raised another exception.
ReadEvent(i, event) ==
    /\ running = 0
    /\ pc[i] = "reading"
    /\ event \in {"resize", "break"} => open[i]
    /\ IF loop_outcome(event) = "exit"
       THEN /\ pc' = [pc EXCEPT ![i] = "closing"]
            /\ running' = i
            /\ why' = [why EXCEPT ![i] = [reason |-> event, by |-> i]]
       ELSE UNCHANGED <<pc, running, why>>
    /\ UNCHANGED <<username, key, command, open, exit_status, connected_clients,
                   bc, out, err, server_stdout, server_stderr, bcasts, escaped,
                   added, removed, nread>>

\* Closing without line 88: the finally block never calls process.exit.
Closing_without_exit(i) ==
    /\ running = i
    /\ pc[i] = "closing"
    /\ open' = [open EXCEPT ![i] = FALSE]
    /\ connected_clients' = list_remove(connected_clients, i).value
    /\ removed' = [removed EXCEPT ![i] = @ + 1]
    /\ server_stderr' = Append(server_stderr, disconnected_msg(username[i]))
    /\ begin_broadcast(i, disconnected_msg(username[i]), TRUE, "disconnected",
                       list_remove(connected_clients, i).value,
                       [open EXCEPT ![i] = FALSE], bcasts, nread)
    /\ UNCHANGED <<username, key, command, exit_status, out, err, server_stdout,
                   added, nread, escaped, why>>

\* The outer finally, lines 85-91: process.exit(0), the process is removed
\* from connected_clients, the departure is logged and broadcast on stderr.
Closing(i) ==
    /\ running = i
    /\ pc[i] = "closing"
    /\ exit_status' = [exit_status EXCEPT ![i] = Append(@, 0)]
    /\ open' = [open EXCEPT ![i] = FALSE]
    /\ LET r == list_remove(connected_clients, i)
       IN  IF r.raised
           THEN /\ connected_clients' = connected_clients
                /\ pc' = [pc EXCEPT ![i] = "done"]
                /\ escaped' = [escaped EXCEPT ![i] =
                                 [kind |-> "ValueError",
                                  message |-> "list.remove(x): x not in list"]]
                /\ running' = 0
                /\ why' = [why EXCEPT ![i] = NoReason]
                /\ UNCHANGED <<bc, bcasts, server_stderr, removed>>
           ELSE /\ connected_clients' = r.value
                /\ removed' = [removed EXCEPT ![i] = @ + 1]
                /\ server_stderr' = Append(server_stderr, disconnected_msg(username[i]))
                /\ begin_broadcast(i, disconnected_msg(username[i]), TRUE,
                                   "disconnected", r.value,
                                   [open EXCEPT ![i] = FALSE], bcasts, nread)
                /\ UNCHANGED <<escaped, why>>
    /\ UNCHANGED <<username, key, command, out, err, server_stdout, added, nread>>

Events == {"resize", "break", "eof", "error"}

\* The logins the clients of a run try: two that are authorized and one that is
\* not (SpecAuth tries every username with every key).
Logins == {<<"alice", "K1">>, <<"bob", "K2">>, <<"mallory", "K1">>}

Next ==
    \/ \E i \in Sessions, l \in Logins : Authenticate(i, l[1], l[2])
    \/ \E i \in Sessions : TransportClose(i)
    \/ \E i \in Sessions : HandlerStart(i)
    \/ \E i \in Sessions, line \in Lines : ReadLine(i, line)
    \/ \E i \in Sessions, event \in Events : ReadEvent(i, event)
    \/ \E i \in Sessions : BroadcastWrite(i)
    \/ \E i \in Sessions : BroadcastFail(i)
    \/ \E i \in Sessions : BroadcastReturn(i)
    \/ \E i \in Sessions : Closing(i)

Spec == Init /\ [][Next]_vars

\* A handler that holds the event loop runs until it suspends or returns: the
\* loop does not stop inside a coroutine.  Nothing is assumed of the clients
\* or the transport.
HandlerStep(i) ==
    Closing(i) \/ BroadcastWrite(i) \/ BroadcastFail(i) \/ BroadcastReturn(i)

\* The runs in which no line is read: sessions come, run their command or wait
\* in the read, lose their connection, and end by an event of the read.
NextLive ==
    \/ \E i \in Sessions, l \in Logins : Authenticate(i, l[1], l[2])
    \/ \E i \in Sessions : TransportClose(i)
    \/ \E i \in Sessions : HandlerStart(i)
    \/ \E i \in Sessions, event \in Events : ReadEvent(i, event)
    \/ \E i \in Sessions : HandlerStep(i)

SpecLive == Init /\ [][NextLive]_vars /\ \A i \in Sessions : WF_vars(HandlerStep(i))

\* connected_clients.remove(process), line 89, run for a process that is not in
\* the list: one whose handler has not yet appended it, or one whose handler
\* has already removed it.  The statement stands in the outer finally, so what
\* it raises leaves handle_connection.
Unregister(i) ==
    /\ running = 0
    /\ pc[i] \in {"start", "done"}
    /\ escaped[i].kind # "ValueError"
    /\ LET r == list_remove(connected_clients, i)
       IN  IF r.raised
           THEN /\ connected_clients' = connected_clients
                /\ escaped' = [escaped EXCEPT ![i] =
                                 [kind |-> "ValueError",
                                  message |-> "list.remove(x): x not in list"]]
                /\ removed' = removed
           ELSE /\ connected_clients' = r.value
                /\ removed' = [removed EXCEPT ![i] = @ + 1]
                /\ escaped' = escaped
    /\ UNCHANGED <<pc, username, key, command, open, exit_status, running, bc,
                   out, err, server_stdout, server_stderr, bcasts, why, added,
                   nread>>

\* The runs of NextLive, with line 89 also run for processes that are not
\* registered.
NextUnregister ==
    \/ \E i \in Sessions, l \in Logins : Authenticate(i, l[1], l[2])
    \/ \E i \in Sessions : TransportClose(i)
    \/ \E i \in Sessions : HandlerStart(i)
    \/ \E i \in Sessions, event \in Events : ReadEvent(i, event)
    \/ \E i \in Sessions : HandlerStep(i)
    \/ \E i \in Sessions : Unregister(i)

SpecUnregister == Init /\ [][NextUnregister]_vars

\* The gate in front of running sessions: every username is tried with every
\* key while the sessions that were admitted register and are told of each
\* other.
NextGate ==
    \/ \E i \in Sessions, u \in Users, k \in Keys : Authenticate(i, u, k)
    \/ \E i \in Sessions : HandlerStart(i)
    \/ \E i \in Sessions : BroadcastWrite(i)
    \/ \E i \in Sessions : BroadcastReturn(i)

SpecGate == Init /\ [][NextGate]_vars

\* The characters of the texts handed to broadcast directly, and those texts:
\* CR, LF and an ordinary character in every position.
TextChars == {CR, LF, "a"}
Texts == UNION {[1..n -> TextChars] : n \in 0..MaxTextLen}

\* broadcast(t, e) called on a text of any shape, lines 39-50, while no handler
\* runs and every registered channel is open: the for loop has no await, so it
\* writes to every member of connected_clients in this one step.  The call is
\* recorded with the text it was given.
CallBroadcast(t, e) ==
    /\ running = 0
    /\ \A b \in 1..Len(bcasts) : bcasts[b].site # "direct"
    /\ \A n \in 1..Len(connected_clients) : open[connected_clients[n]]
    /\ LET m  == normalize(t, e)
           id == Len(bcasts) + 1
       IN  /\ bcasts' = Append(bcasts,
                          [from |-> 0, site |-> "direct", use_stderr |-> e,
                           raw |-> t, text |-> m, snapshot |-> connected_clients,
                           broken |-> {}, line_no |-> nread,
                           raised |-> FALSE, returned |-> TRUE])
           /\ err' = [j \in Sessions |->
                        IF e /\ InRegistry(j)
                        THEN Append(err[j], [b |-> id, text |-> m]) ELSE err[j]]
           /\ out' = [j \in Sessions |->
                        IF ~e /\ InRegistry(j)
                        THEN Append(out[j], [b |-> id, text |-> m]) ELSE out[j]]
    /\ UNCHANGED <<pc, username, key, command, open, exit_status,
                   connected_clients, running, bc, server_stdout, server_stderr,
                   why, escaped, added, removed, nread>>

\* Sessions connect and register, and broadcast is called once on a text of
\* any shape.
NextText ==
    \/ \E i \in Sessions, l \in Logins : Authenticate(i, l[1], l[2])
    \/ \E i \in Sessions : HandlerStart(i)
    \/ \E i \in Sessions : BroadcastWrite(i)
    \/ \E i \in Sessions : BroadcastReturn(i)
    \/ \E t \in Texts, e \in BOOLEAN : CallBroadcast(t, e)

SpecText == Init /\ [][NextText]_vars

\* The authentication gate alone, on every username and every key.
NextAuth == \E i \in Sessions, u \in Users, k \in Keys : Authenticate(i, u, k)

SpecAuth == Init /\ [][NextAuth]_vars

\* ----------------------------------------------------------------- claims

\* The connections the transport has asked validate_public_key about.
Tried == {i \in Sessions : pc[i] # "idle"}
\* Those it admitted.
Admitted == {i \in Tried : pc[i] # "rejected"}

\* C9: a username that is not in the identity table is refused whatever key it
\* presents, and a login on which the lookup or the comparison faults is
\* refused too: the fault never becomes an admission.
C9_UnknownUserRejected ==
    \A i \in Tried :
        (\/ username[i] \notin DOMAIN config_clients
         \/ lookup_and_validate(username[i], key[i]).raised)
        => pc[i] = "rejected"

\* C9 happens: an unknown username was refused with a key that is authorized
\* for a client, and a client was refused on a key whose comparison faults.
C9_Witness ==
    \E i, j \in Sessions :
        /\ pc[i] = "rejected" /\ username[i] = "mallory" /\ key[i] = "K1"
        /\ pc[j] = "rejected" /\ username[j] = "alice" /\ key[j] = "Kbad"

\* C10: a username of the identity table is admitted if and only if the key it
\* presents is one of its own authorized keys; a key that is authorized only
\* for another username is refused.
C10_KnownUserAdmittedIffAuthorized ==
    \A i \in Tried :
        username[i] \in DOMAIN config_clients
        => (i \in Admitted <=> key[i] \in config_clients[username[i]])

\* C10 happens: alice was admitted on her second key and refused on bob's.
C10_Witness ==
    \E i, j \in Sessions :
        /\ i \in Admitted /\ username[i] = "alice" /\ key[i] = "K3"
        /\ pc[j] = "rejected" /\ username[j] = "alice" /\ key[j] = "K2"

\* How often broadcast b was written to the sink `sink`.
Count(sink, b) == Cardinality({n \in 1..Len(sink) : sink[n].b = b})

\* The sink of session j a broadcast on that channel writes to.
Sink(j, use_stderr) == IF use_stderr THEN err[j] ELSE out[j]

Calls == 1..Len(bcasts)
\* The members of a list.
Members(list) == {list[n] : n \in 1..Len(list)}
\* The calls of broadcast on the primary channel (stdout): the chat lines.
Chat == {b \in Calls : ~bcasts[b].use_stderr}

\* C1: a chat message whose broadcast returned, so that no write of it failed,
\* is in the stdout sink of every session that was registered when it was
\* broadcast exactly once, with the text that was broadcast, and in no other
\* sink; no sink holds a message twice; every sink holds its messages in the
\* order of the broadcasts, which is the order in which the lines were read.
C1_ExactlyOnceInOrder ==
    /\ \A b \in Chat : \A j \in Sessions :
          /\ Count(out[j], b) <= 1
          /\ j \notin Members(bcasts[b].snapshot) => Count(out[j], b) = 0
          /\ bcasts[b].returned /\ j \in Members(bcasts[b].snapshot)
                => Count(out[j], b) = 1
    /\ \A j \in Sessions : \A n \in 1..Len(out[j]) :
          /\ out[j][n].b \in Chat
          /\ out[j][n].text = bcasts[out[j][n].b].text
          /\ \A m \in 1..(n - 1) :
                /\ out[j][m].b < out[j][n].b
                /\ bcasts[out[j][m].b].line_no <= bcasts[out[j][n].b].line_no
    /\ \A a, b \in Chat :
          (a < b /\ bcasts[a].site = "line" /\ bcasts[b].site = "line")
          => bcasts[a].line_no < bcasts[b].line_no

\* C1 happens: three sessions are registered, two lines sent by different
\* sessions were broadcast without a failing write, and every one of the three
\* has received both.
C1_Witness ==
    \E a, b \in Chat :
        /\ a < b
        /\ bcasts[a].site = "line" /\ bcasts[b].site = "line"
        /\ bcasts[a].from # bcasts[b].from
        /\ bcasts[a].returned /\ bcasts[b].returned
        /\ \A j \in Sessions : Count(out[j], a) = 1 /\ Count(out[j], b) = 1

\* The handler of session i is between Established and Closing: it has
\* appended its process (line 53) and has not yet run line 89.
Live(i) ==
    \/ pc[i] \in {"reading", "closing"}
    \/ pc[i] = "bcast" /\ bc.ret # "disconnected"

\* C2: a session is in connected_clients exactly while its handler is between
\* Established and Closing, and never twice; it is appended once and removed
\* once, whatever ends it, so that a finished session is not in the list.
C2_RegistryMatchesLifecycle ==
    \A i \in Sessions :
        /\ InRegistry(i) <=> Live(i)
        /\ Cardinality({n \in 1..Len(connected_clients) : connected_clients[n] = i}) <= 1
        /\ added[i] = (IF pc[i] \in {"idle", "rejected", "start"} THEN 0 ELSE 1)
        /\ removed[i] = (IF Live(i) \/ added[i] = 0 THEN 0 ELSE 1)
        /\ pc[i] = "done" => added[i] = 1 /\ removed[i] = 1 /\ ~InRegistry(i)

\* C2 happens: one session has finished with an exception leaving its finally
\* block (the write of its departure notice failed), another has finished a
\* command, and neither is in the list that a third is still in.
C2_Witness ==
    \E i, j, k \in Sessions :
        /\ pc[i] = "done" /\ escaped[i] = BrokenPipe /\ ~InRegistry(i)
        /\ pc[j] = "done" /\ command[j].given /\ escaped[j] = NoError
        /\ InRegistry(k)

\* C3: a terminal-resize notification leaves the session as it was: still
\* waiting for its next line, still registered, not exited.
C3_ResizeKeepsSession ==
    [][\A i \in Sessions :
          ReadEvent(i, "resize")
          => /\ pc'[i] = "reading"
             /\ \E n \in 1..Len(connected_clients') : connected_clients'[n] = i
             /\ exit_status'[i] = <<>>]_vars

\* The calls of broadcast that have ended, by returning or by raising.
Ended == {b \in Calls : bcasts[b].returned \/ bcasts[b].raised}
\* The sessions of the registry at call b whose channel was open.
Reachable(b) == Members(bcasts[b].snapshot) \ bcasts[b].broken

\* C4: no call of broadcast raises, and a call that has ended has written its
\* message to every registered session whose sink could be written to.
C4_WriteFailureIsolated ==
    \A b \in Ended :
        /\ ~bcasts[b].raised
        /\ \A j \in Reachable(b) : Count(Sink(j, bcasts[b].use_stderr), b) = 1

\* C5: a handler leaves its try body only on an event of its own session (its
\* command is done, its input ended, its client sent a break or resized, its
\* read failed, its own sink failed), never on the fault of another session.
C5_FaultsContained ==
    \A j \in Sessions : why[j].reason # "none" => why[j].by = j

\* The departure notices of session i.
Departures(i) == {b \in Calls : bcasts[b].from = i /\ bcasts[b].site = "disconnected"}

\* C6: a session that has finished has had exactly one departure notice
\* broadcast on stderr, every remaining session that could be written to has
\* received it, and the session itself has received nothing since.
C6_DepartureNoticeDelivered ==
    \A i \in Sessions :
        pc[i] = "done"
        => /\ Cardinality(Departures(i)) = 1
           /\ \A b \in Departures(i) :
                 /\ bcasts[b].use_stderr
                 /\ bcasts[b].text = <<"[disconnected] ", username[i], CR, LF>>
                 /\ \A j \in Reachable(b) : Count(err[j], b) = 1
                 /\ \A n \in 1..Len(out[i]) : out[i][n].b < b
                 /\ \A n \in 1..Len(err[i]) : err[i][n].b < b

\* C7: when a read fails with an exception that is neither a break nor a
\* resize, the handler has logged the exception's kind and message by the time
\* it is about to close, and no exception has left it.
C7_ReadErrorLogged ==
    \A i \in Sessions :
        why[i].reason = "error"
        => /\ \E n \in 1..Len(server_stderr) :
                 server_stderr[n] \in {error_msg(SignalReceived), error_msg(ConnectionLost)}
           /\ escaped[i] = NoError

\* The chat messages session i has broadcast.
ChatOf(i) == {b \in Chat : bcasts[b].from = i}

\* C8: a session with a command never waits for input and broadcasts no line;
\* once it is closing it has broadcast exactly one chat message, its command.
C8_CommandBroadcastOnce ==
    \A i \in Sessions :
        command[i].given
        => /\ pc[i] # "reading"
           /\ \A b \in ChatOf(i) :
                 /\ bcasts[b].site = "command"
                 /\ bcasts[b].text = <<username[i], ": ">> \o command[i].text \o <<LF>>
           /\ (pc[i] \in {"closing", "done"} \/ Departures(i) # {})
                 => Cardinality(ChatOf(i)) = 1

\* A call of broadcast is between its first and its last write: it has
\* written to a sink and the for loop has recipients left.
MidBroadcast == bc.id # 0 /\ 1 < bc.idx /\ bc.idx <= Len(connected_clients)

\* The entries a step appends to the sinks.
NewEntries ==
    UNION {{out'[j][n] : n \in (Len(out[j]) + 1)..Len(out'[j])} : j \in Sessions}
    \cup UNION {{err'[j][n] : n \in (Len(err[j]) + 1)..Len(err'[j])} : j \in Sessions}

\* C11: between the first and the last write of a call of broadcast, every step
\* is a step of that call: it writes the call's message or ends the call, no
\* other call of broadcast starts or writes, and connected_clients is not
\* changed; and whatever is written to a sink at any time is the message of
\* the one call in progress.
C11_BroadcastsDoNotInterleave ==
    [][/\ \A e \in NewEntries : bc.id # 0 /\ e.b = bc.id /\ e.text = bc.msg
       /\ MidBroadcast
          => /\ connected_clients' = connected_clients
             /\ Len(bcasts') = Len(bcasts)
             /\ bc'.id = bc.id \/ bc' = NoFrame
             /\ running' \in {running, 0}]_vars

\* C11 happens: a call of broadcast is between two of its writes while another
\* session waits for the loop, one to start and one to read.
C11_Witness ==
    /\ MidBroadcast
    /\ \E j, k \in Sessions : j # k /\ pc[j] = "reading" /\ pc[k] = "start"


\* The last call of broadcast is the departure notice of session i.
DepartureCall(i, hist) ==
    /\ hist # <<>>
    /\ hist[Len(hist)].from = i
    /\ hist[Len(hist)].site = "disconnected"
    /\ hist[Len(hist)].use_stderr
    /\ hist[Len(hist)].text = <<"[disconnected] ", username[i], CR, LF>>

\* C12: a break from the client ends the session in silence.  The step that
\* takes the break logs nothing, broadcasts nothing and leaves the read loop
\* for the outer finally; from there to the end of the handler the only line
\* logged and the only broadcast started are the departure of that session;
\* the finally exits with status 0 and removes the session from
\* connected_clients before it starts that broadcast.
C12_BreakEndsSilently ==
    [][\A i \in Sessions :
        /\ (why[i].reason # "break" /\ why'[i].reason = "break")
           => /\ pc[i] = "reading" /\ pc'[i] = "closing"
              /\ UNCHANGED <<server_stderr, server_stdout, bcasts, out, err,
                             connected_clients>>
        /\ why[i].reason = "break"
           => /\ running = i
              /\ server_stdout' = server_stdout
              /\ \/ server_stderr' = server_stderr
                 \/ server_stderr' = Append(server_stderr, disconnected_msg(username[i]))
              /\ Len(bcasts') > Len(bcasts)
                 => Len(bcasts') = Len(bcasts) + 1 /\ DepartureCall(i, bcasts')
              /\ pc[i] = "closing"
                 => /\ pc'[i] = "bcast"
                    /\ exit_status'[i] = <<0>>
                    /\ ~open'[i]
                    /\ i \in Members(connected_clients)
                    /\ i \notin Members(connected_clients')
                    /\ server_stderr' = Append(server_stderr, disconnected_msg(username[i]))
                    /\ DepartureCall(i, bcasts') /\ Len(bcasts') = Len(bcasts) + 1
              /\ pc[i] = "bcast" => pc'[i] \in {"bcast", "done"}
              /\ pc'[i] = "done" => exit_status'[i] = <<0>> /\ removed'[i] = 1]_vars

\* C12 happens: a session that sent a break is in its departure broadcast,
\* with another session still registered to hear of it.
C12_Witness ==
    \E i \in Sessions :
        /\ why[i].reason = "break"
        /\ pc[i] = "bcast" /\ bc.ret = "disconnected" /\ bc.idx > 1
        /\ exit_status[i] = <<0>>


\* The calls of broadcast with the arrival notice of session i.
Arrivals(i) == {b \in Calls : bcasts[b].from = i /\ bcasts[b].site = "connected"}

\* C13: a session whose handler has started has had its arrival notice
\* broadcast exactly once, as "[connected] {username}" on stderr, to a registry
\* the session is in, before every chat message and before the departure
\* notice of that session; the notice is written to no stdout sink and to no
\* sink twice.  A session whose handler has not started is not registered and
\* has broadcast nothing.
C13_ArrivalNoticeOnceAndFirst ==
    \A i \in Sessions :
        /\ Cardinality(Arrivals(i))
              = (IF pc[i] \in {"idle", "rejected", "start"} THEN 0 ELSE 1)
        /\ \A a \in Arrivals(i) :
              /\ bcasts[a].use_stderr
              /\ bcasts[a].text = <<"[connected] ", username[i], CR, LF>>
              /\ i \in Members(bcasts[a].snapshot)
              /\ \A b \in ChatOf(i) \cup Departures(i) : a < b
              /\ \A j \in Sessions : Count(out[j], a) = 0 /\ Count(err[j], a) <= 1
        /\ Arrivals(i) = {}
              => /\ ~InRegistry(i)
                 /\ \A b \in Calls : bcasts[b].from # i

\* C13 happens: a session has had its arrival notice, a line of its own and its
\* departure notice broadcast, and another session has received the arrival.
C13_Witness ==
    \E i \in Sessions : \E a \in Arrivals(i) :
        /\ \E b \in ChatOf(i) : bcasts[b].site = "line"
        /\ Departures(i) # {}
        /\ \E j \in Sessions \ {i} : Count(err[j], a) = 1


\* The calls of broadcast made directly, on a text of any shape.
Direct == {b \in Calls : bcasts[b].site = "direct"}
\* The positions of a text that hold neither CR nor LF.
Solid(t) == {n \in 1..Len(t) : t[n] \notin {CR, LF}}
\* The least and the greatest member of a non-empty set of numbers.
Least(S) == CHOOSE n \in S : \A m \in S : n <= m
Greatest(S) == CHOOSE n \in S : \A m \in S : m <= n
\* A text without its trailing CR and LF characters.
WithoutTrailing(t) ==
    IF Solid(t) = {} THEN <<>> ELSE SubSeq(t, 1, Greatest(Solid(t)))
\* A text without its leading and trailing CR and LF characters.
WithoutLeadingAndTrailing(t) ==
    IF Solid(t) = {} THEN <<>> ELSE SubSeq(t, Least(Solid(t)), Greatest(Solid(t)))
\* What a call of broadcast has written, given what it should write.
Wrote(b, text) ==
    /\ bcasts[b].text = text
    /\ \A j \in Members(bcasts[b].snapshot) :
          /\ Count(Sink(j, bcasts[b].use_stderr), b) = 1
          /\ \A n \in 1..Len(Sink(j, bcasts[b].use_stderr)) :
                Sink(j, bcasts[b].use_stderr)[n].b = b
                => Sink(j, bcasts[b].use_stderr)[n].text = text

\* C14, as claimed: broadcast writes its text without its trailing CR and LF
\* characters, and otherwise whole, followed by LF on stdout and by CR LF on
\* stderr.
C14_TrailingTerminatorOnly ==
    \A b \in Direct :
        Wrote(b, WithoutTrailing(bcasts[b].raw)
                 \o (IF bcasts[b].use_stderr THEN <<CR, LF>> ELSE <<LF>>))

\* C14, amended: broadcast writes its text without its leading and its trailing
\* CR and LF characters, and otherwise whole (a CR or LF between two other
\* characters stays), followed by LF on stdout and by CR LF on stderr.
C14_LeadingAndTrailingStripped ==
    \A b \in Direct :
        Wrote(b, WithoutLeadingAndTrailing(bcasts[b].raw)
                 \o (IF bcasts[b].use_stderr THEN <<CR, LF>> ELSE <<LF>>))

\* C14 happens: broadcast was called on a text that starts and ends with a line
\* terminator, and two registered sessions have been written to; and on a text
\* with a terminator between two other characters.
C14_Witness ==
    \E b \in Direct :
        /\ bcasts[b].raw = <<LF, "a", CR>>
        /\ Cardinality(Members(bcasts[b].snapshot)) >= 2
        /\ \A j \in Members(bcasts[b].snapshot) :
              Count(Sink(j, bcasts[b].use_stderr), b) = 1


\* The sessions a call of broadcast has written to.
Recipients(b) ==
    {j \in Sessions : Count(Sink(j, bcasts[b].use_stderr), b) > 0}

\* Half of C15: no session that was not registered when a call of broadcast
\* started is written to by it.
NoLateRecipient ==
    \A b \in Calls : Recipients(b) \subseteq Members(bcasts[b].snapshot)

\* C15: the recipients of a call of broadcast that has ended are exactly the
\* sessions that were registered when it started (a session whose channel was
\* closed by then cannot be written to and is left aside); a session that
\* registered later is not among them.
C15_RecipientsAreRegistryAtCall ==
    \A b \in Ended :
        /\ Recipients(b) \subseteq Members(bcasts[b].snapshot)
        /\ Reachable(b) \subseteq Recipients(b)


\* C16: a session whose input ends while it waits in its read loop leaves the
\* loop and its handler eventually ends, with exit status 0 signalled once,
\* the session out of connected_clients, and its departure notice broadcast on
\* stderr.
C16_EndOfInputClosesSession ==
    \A i \in Sessions :
        (why[i].reason = "eof")
        ~> (/\ pc[i] = "done"
            /\ exit_status[i] = <<0>>
            /\ ~InRegistry(i)
            /\ \E b \in Departures(i) :
                  /\ bcasts[b].use_stderr
                  /\ bcasts[b].text = <<"[disconnected] ", username[i], CR, LF>>)

\* C16 happens: a session whose input ended has left the loop, exited, left
\* connected_clients, and written its departure notice to the other two.
C16_Witness ==
    \E i \in Sessions :
        /\ why[i].reason = "eof"
        /\ pc[i] = "bcast" /\ bc.ret = "disconnected"
        /\ bc.idx > Len(connected_clients)
        /\ exit_status[i] = <<0>>
        /\ \A j \in Sessions \ {i} : Count(err[j], bc.id) = 1


C18_RejectionChangesNothing ==
    [][\A i \in Sessions :
          /\ (pc[i] = "idle" /\ pc'[i] = "rejected")
             => /\ ~validate_public_key(username'[i], key'[i])
                /\ UNCHANGED <<connected_clients, out, err, bc, bcasts,
                               server_stdout, server_stderr, open, command,
                               exit_status, added, removed, running>>
          /\ pc[i] = "rejected"
             => /\ pc'[i] = "rejected"
                /\ i \notin Members(connected_clients')
                /\ ~open'[i]
                /\ out'[i] = <<>> /\ err'[i] = <<>>
                /\ \A b \in (Len(bcasts) + 1)..Len(bcasts') : bcasts'[b].from # i]_vars

\* C18 happens: a known user was refused for a key that is not hers and an
\* unknown user was refused as well, while a session is registered and has
\* been written to.
C18_Witness ==
    \E i, j, k \in Sessions :
        /\ j < i /\ j < k
        /\ InRegistry(j) /\ err[j] # <<>>
        /\ pc[i] = "rejected" /\ username[i] \in DOMAIN config_clients
        /\ pc[k] = "rejected" /\ username[k] \notin DOMAIN config_clients


\* C19: the step that reads the empty string broadcasts nothing and logs
\* nothing: it leaves the read loop for the outer finally, as a break does.
\* From there to the end of the handler nothing is written to the server's
\* stdout, the only line logged on its stderr is the departure of that
\* session, so no error entry is, and the only broadcast started is that
\* departure.
C19_EmptyLineIsBreak ==
    [][\A i \in Sessions :
          /\ ReadLine(i, <<>>)
             => /\ why'[i].reason = "empty_line"
                /\ pc'[i] = "closing"
                /\ UNCHANGED <<server_stderr, server_stdout, bcasts, bc, out,
                               err, connected_clients, nread>>
          /\ why[i].reason = "empty_line"
             => /\ running = i
                /\ server_stdout' = server_stdout
                /\ \/ server_stderr' = server_stderr
                   \/ server_stderr' = Append(server_stderr, disconnected_msg(username[i]))
                /\ \A b \in (Len(bcasts) + 1)..Len(bcasts') :
                      bcasts'[b].from = i /\ bcasts'[b].site = "disconnected"
                /\ pc[i] = "closing" => pc'[i] = "bcast" /\ bc'.ret = "disconnected"
                /\ pc'[i] \in {"bcast", "done"}]_vars

\* C19 happens: a session that had sent a line read the empty string, and is
\* now in its departure broadcast with another session to write to.
C19_Witness ==
    \E i \in Sessions :
        /\ why[i].reason = "empty_line"
        /\ pc[i] = "bcast" /\ bc.ret = "disconnected" /\ bc.idx > 1
        /\ \E b \in ChatOf(i) : bcasts[b].site = "line"


\* C20: a call of broadcast that has ended has written its message once to
\* the sink of the session that made it, when the message is that session's
\* arrival notice, its command or a line of its own; and has not written it to
\* that session when the message is its departure notice.
C20_SenderHearsItself ==
    \A b \in Ended :
        IF bcasts[b].site = "disconnected"
        THEN /\ bcasts[b].from \notin Members(bcasts[b].snapshot)
             /\ Count(err[bcasts[b].from], b) = 0
             /\ Count(out[bcasts[b].from], b) = 0
        ELSE /\ bcasts[b].from \in Members(bcasts[b].snapshot)
             /\ Count(Sink(bcasts[b].from, bcasts[b].use_stderr), b) = 1

====
